---------------------------- MODULE Spec2Model ----------------------------
(***************************************************************************)
(* KV cache variants (jetstream_pt/cache_manager.py) and the sharding      *)
(* environment (jetstream_pt/environment.py) as state machines.            *)
(*                                                                         *)
(* Tensors are records [shape, data]: shape is the 4-tuple                 *)
(* (batch, heads, seq, dim) and data maps every 0-based index tuple to an  *)
(* integer.  Floating point values are exact: activations are integers,    *)
(* scales are counted in units of 1/QMAX (a scale of one is QMAX units).   *)
(***************************************************************************)
EXTENDS Integers, Sequences, FiniteSets, TLC

\* ------------------------------------------------------------------ bounds
Batch == 2        \* rows of a cache buffer
Heads == 2        \* attention heads of a cache buffer
Capacity == 2     \* columns (sequence positions) of a cache buffer
HeadDim == 1      \* elements per head
MaxVal == 3       \* activations range over -MaxVal..MaxVal
NumInputs == 3    \* step tensors a caller may pass to update
SeqLen == 2       \* longest sequence axis of a prefill or quantize input
MaxLayers == 2    \* largest num_layers of a configuration

MaxSeg == 3       \* longest segment of a parameter name, in characters
MaxKeys == 2      \* most weight keys of a shard
MaxShards == 2    \* most shards of a checkpoint
MaxRuns == 2      \* runs of the merge on one machine

\* --------------------------------------------------------------- constants
QMAX == 127       \* scale = amax / 127

VARIABLES
  cls,          \* class of the cache object under test, "None" before __init__
  kv_quantize,  \* KVCachePrefill.kv_quantize
  cache_k,      \* self.cache_k
  cache_v,      \* self.cache_v
  k_scaler,     \* Int8KVCacheGenerate.k_scaler
  v_scaler,     \* Int8KVCacheGenerate.v_scaler
  pos,          \* KVCacheGenerate.pos / Int8KVCacheGenerate.input_pos
  batch,        \* self.batch = arange(position.shape[0])
  sharding,     \* KVCacheGenerate.sharding
  backend,      \* storage layer of the buffers: "jax" or "torch"
  op,           \* name of the last call
  args,         \* tensors the last call was given
  err,          \* exception the last call raised, "none" if it returned
  ret           \* value the last call returned (a tuple of tensors)

  \* a direct call of Int8KVCacheGenerate.quantize
VARIABLES
  q_val,        \* the argument val
  q_quant,      \* the first component of the result, None before the call
  q_scale       \* the second component of the result, None before the call

  \* a JetEngineEnvironment and the calls made on it
VARIABLES
  env_data,         \* the JetEngineEnvironmentData given to the constructor, with
                    \* the document at sharding_config_path
  env,              \* TRUE once __init__ has returned
  cache_sharding,   \* self.cache_sharding
  sharding_config,  \* self._sharding_config
  e_op,             \* name of the last call on the environment
  e_arg,            \* its argument
  e_err,            \* exception it raised, "none" if it returned
  e_ret             \* the sharding it returned

  \* the caches of the layers, as make_caches_prefill and make_caches_generate
  \* return them
VARIABLES
  caches,       \* the list the last make_caches_* call returned
  l_ret         \* what the last update on a cache of the list returned

  \* an update of a Generate cache statement by statement, and a reader
VARIABLES
  u_pc,         \* statements of the running update already executed; 0: none runs
  u_args,       \* (key, value, nan) of the running update
  u_pre,        \* the four buffers as the running update found them
  seen,         \* the four buffers as the reader's last state()/scalers() saw them
  seen_pc       \* u_pc at the reader's last read

  \* a run of _merge_llama_weights and the directory /tmp/checkpoints
VARIABLES
  checkpoints,                \* the list of shards of the last run
  minimize_memory_footprint,  \* its mode
  enable_float32,             \* its conversion flag
  tmp_dir,                    \* the files of /tmp/checkpoints: key |-> saved dict
  state_dict,                 \* what the last run returned
  m_err,                      \* "none", or the exception the last run raised
  runs                        \* runs so far

cacheVars == <<cls, kv_quantize, cache_k, cache_v, k_scaler, v_scaler, pos,
               batch, sharding, backend, op, args, err, ret>>

quantVars == <<q_val, q_quant, q_scale>>

envVars == <<env_data, env, cache_sharding, sharding_config, e_op, e_arg, e_err, e_ret>>

layerVars == <<caches, l_ret>>

concVars == <<u_pc, u_args, u_pre, seen, seen_pc>>

mergeVars == <<checkpoints, minimize_memory_footprint, enable_float32, tmp_dir,
               state_dict, m_err, runs>>

vars == <<cacheVars, quantVars, envVars, layerVars, concVars, mergeVars>>

\* ----------------------------------------------------------------- tensors
Range(n) == 0 .. (n - 1)

Idx(shape) == Range(shape[1]) \X Range(shape[2]) \X Range(shape[3]) \X Range(shape[4])

\* jnp.zeros(shape) is Full(shape, 0); jnp.ones(shape) is Full(shape, <one>)
Full(shape, v) == [shape |-> shape, data |-> [i \in Idx(shape) |-> v]]

\* Python None where a tensor is expected
NoneT == [shape |-> <<>>, data |-> <<>>]

Abs(x) == IF x < 0 THEN -x ELSE x

Sign(x) == IF x < 0 THEN -1 ELSE 1

Max(S) == CHOOSE m \in S : \A x \in S : x <= m

\* values -MaxVal..MaxVal, folded from a residue modulo 2*MaxVal+1
Center(x) == LET m == 2 * MaxVal + 1
                 r == x % m
             IN  IF r > MaxVal THEN r - m ELSE r

\* ------------------------------------------------------- inputs of callers
StepShape == <<Batch, Heads, 1, HeadDim>>

CacheShape == <<Batch, Heads, Capacity, HeadDim>>

ScalerShape(shape) == <<shape[1], 1, shape[3], 1>>

\* the step tensors (batch, heads, 1, dim) a caller passes: number 0 is all
\* zero; in the others row b holds a base value that differs from row to row,
\* alternating over (head, element) with minus half of it
StepTensor(s) ==
  [shape |-> StepShape,
   data  |-> [i \in Idx(StepShape) |->
                LET base == Center(s * (i[1] + 1))
                IN  IF (i[2] + i[4]) % 2 = 0 THEN base
                    ELSE -(Sign(base) * (Abs(base) \div 2))]]

\* the (key, value) pairs of one step: the key and the value differ
StepInputs == {<<StepTensor(s), StepTensor((s + 1) % NumInputs)>> : s \in Range(NumInputs)}

\* prefill tensors (batch, heads, seq, dim) of every prompt length 1..SeqLen
PrefillTensor(s, seq) ==
  LET shape == <<Batch, Heads, seq, HeadDim>>
  IN  [shape |-> shape,
       data  |-> [i \in Idx(shape) |-> Center(s + i[1] + i[2] + i[3] + i[4])]]

\* (key, value) pairs of one prompt
PrefillInputs ==
  {<<PrefillTensor(s, seq), PrefillTensor(t, seq)>> :
     s \in Range(NumInputs), t \in Range(NumInputs), seq \in 1 .. SeqLen}

\* buffers a caller may hand to a Generate constructor: zero filled, or a
\* known pattern off + (row + column) mod 2, which has no zero cell
PatternBuffer(shape, off) ==
  [shape |-> shape, data |-> [i \in Idx(shape) |-> off + ((i[1] + i[3]) % 2)]]

\* (cache_k, cache_v) pairs
InitBuffers(shape) ==
  {<<Full(shape, 0), Full(shape, 0)>>, <<PatternBuffer(shape, 1), PatternBuffer(shape, -2)>>}

\* positions a caller may hand to a constructor: the code checks none of them
PosRange == (-1) .. Capacity

ArrayPos(v) == [kind |-> "array", v |-> v]

\* a Python int where a tensor is expected
IntPos(n) == [kind |-> "int", v |-> <<n>>]

\* position tensors of one entry per row: rows 0, 2, ... at a, rows 1, 3, ... at b
PositionInputs ==
  {ArrayPos([n \in 1 .. Batch |-> IF n % 2 = 1 THEN a ELSE b]) : a \in PosRange, b \in PosRange}

Shardings == {"replicated", "x0"}

\* the storage a caller's buffers live on: wrapped jax arrays or torch tensors
Backends == {"jax", "torch"}

\* what a float NaN converted to int8 may become (undefined in C++)
NaNToInt8 == {-128, 0}

\* a scale of one, scales being counted in units of 1/QMAX
ScaleUnit == QMAX

\* --------------------------------------------------------- storage layers
\* NumPy index normalisation: a negative index counts from the end
NormIndex(p, size) == IF p < 0 THEN p + size ELSE p

InBounds(p, size) == NormIndex(p, size) \in Range(size)

\* torch.arange(n)
Arange(n) == [k \in 1 .. n |-> k - 1]

\* torch.squeeze(t, 2) of a (b, h, 1, d) tensor: a map over (b, h, d)
Squeeze2(t) ==
  [i \in Range(t.shape[1]) \X Range(t.shape[2]) \X Range(t.shape[4]) |->
     t.data[<<i[1], i[2], 0, i[3]>>]]

\* the index pairs of (bt, ps) that address cell i of a buffer with `size` columns
Hits(bt, ps, size, i) ==
  {n \in 1 .. Len(bt) : bt[n] = i[1] /\ NormIndex(ps[n], size) = i[3]}

\* buf[bt, :, ps, :] = src restricted to the index pairs in `rows`
ScatterRows(buf, bt, ps, src, rows) ==
  [buf EXCEPT !.data =
     [i \in Idx(buf.shape) |->
        LET hit == Hits(bt, ps, buf.shape[3], i) \cap rows
        IN  IF hit = {} THEN buf.data[i]
            ELSE src[<<Max(hit) - 1, i[2], i[4]>>]]]

\* the scatter written as a whole-row assignment x.at[bt, :, :].set(src)
JaxAtSet_WholeRow(buf, bt, ps, src) ==
  [buf EXCEPT !.data =
     [i \in Idx(buf.shape) |->
        IF \E n \in 1 .. Len(bt) : bt[n] = i[1] THEN src[<<i[1], i[2], i[4]>>]
        ELSE buf.data[i]]]

\* the scatter on a growable buffer: a position past the last column appends
\* zero filled columns up to it
JaxAtSet_Grow(buf, bt, ps, src) ==
  LET need  == Max({buf.shape[3]} \cup {ps[n] + 1 : n \in 1 .. Len(ps)})
      shape == <<buf.shape[1], buf.shape[2], need, buf.shape[4]>>
      wide  == [shape |-> shape,
                data  |-> [i \in Idx(shape) |-> IF i \in Idx(buf.shape) THEN buf.data[i] ELSE 0]]
  IN  ScatterRows(wide, bt, ps, src, {n \in 1 .. Len(bt) : InBounds(ps[n], need)})

\* jax: x.at[bt, :, ps].set(src); out-of-bounds updates are dropped
JaxAtSet(buf, bt, ps, src) ==
  ScatterRows(buf, bt, ps, src, {n \in 1 .. Len(bt) : InBounds(ps[n], buf.shape[3])})

\* torch: x[bt, :, ps, :] = src raises IndexError on an out-of-bounds index
TorchIndexError(buf, ps) == \E n \in 1 .. Len(ps) : ~InBounds(ps[n], buf.shape[3])

\* ------------------------------------------------------------ cache object
\* the object a reference to a cache denotes; NoneObj is Python None
Obj(c, q, k, v, p, sh) ==
  [cls |-> c, kv_quantize |-> q, cache_k |-> k, cache_v |-> v, pos |-> p, sharding |-> sh]

NoneObj == Obj("None", FALSE, NoneT, NoneT, <<>>, "none")

Self == Obj(cls, kv_quantize, cache_k, cache_v, pos, sharding)

\* a call on the cache that raises: nothing is returned and the exception is
\* recorded; no cache method touches an environment
Raise(name, a, e) ==
  /\ op' = name /\ args' = a /\ err' = e /\ ret' = <<>>
  /\ UNCHANGED <<quantVars, envVars, layerVars, concVars, mergeVars>>

Return(name, a, value) ==
  /\ op' = name /\ args' = a /\ err' = "none" /\ ret' = value
  /\ UNCHANGED <<quantVars, envVars, layerVars, concVars, mergeVars>>

CacheInit ==
  /\ cls = "None"
  /\ kv_quantize = FALSE
  /\ cache_k = NoneT
  /\ cache_v = NoneT
  /\ k_scaler = NoneT
  /\ v_scaler = NoneT
  /\ pos = <<>>
  /\ batch = <<>>
  /\ sharding = "none"
  /\ backend = "jax"
  /\ op = "none"
  /\ args = <<>>
  /\ err = "none"
  /\ ret = <<>>

\* ---------------------------------------------------------- KVCachePrefill
KVCachePrefill_init(q) ==
  /\ cls = "None"
  /\ cls' = "KVCachePrefill"
  /\ kv_quantize' = q
  /\ cache_k' = NoneT
  /\ cache_v' = NoneT
  /\ Return("KVCachePrefill", <<>>, <<>>)
  /\ UNCHANGED <<k_scaler, v_scaler, pos, batch, sharding, backend>>

\* an update that keeps what an earlier update stored
KVCachePrefill_update_KeepFirst(key, value) ==
  /\ cls = "KVCachePrefill"
  /\ cache_k' = IF cache_k = NoneT THEN key ELSE cache_k
  /\ cache_v' = IF cache_v = NoneT THEN value ELSE cache_v
  /\ Return("update", <<key, value>>, <<key, value>>)
  /\ UNCHANGED <<cls, kv_quantize, k_scaler, v_scaler, pos, batch, sharding, backend>>

\* an update whose placeholder scales take the whole shape of key
KVCachePrefill_update_OnesLikeKey(key, value) ==
  /\ cls = "KVCachePrefill"
  /\ cache_k' = key
  /\ cache_v' = value
  /\ IF kv_quantize
       THEN LET ones == Full(key.shape, ScaleUnit)
            IN  Return("update", <<key, value>>, <<key, value, ones, ones>>)
       ELSE Return("update", <<key, value>>, <<key, value>>)
  /\ UNCHANGED <<cls, kv_quantize, k_scaler, v_scaler, pos, batch, sharding, backend>>

KVCachePrefill_update(key, value) ==
  /\ cls = "KVCachePrefill"
  /\ cache_k' = key
  /\ cache_v' = value
  /\ IF kv_quantize
       THEN LET ones == Full(<<key.shape[1], 1, key.shape[3], 1>>, ScaleUnit)
            IN  Return("update", <<key, value>>, <<key, value, ones, ones>>)
       ELSE Return("update", <<key, value>>, <<key, value>>)
  /\ UNCHANGED <<cls, kv_quantize, k_scaler, v_scaler, pos, batch, sharding, backend>>

\* state(): a read-only accessor
KVCachePrefill_state == <<cache_k, cache_v>>

KVCachePrefill_flatten(cache) ==
  [data |-> <<cache.cache_k, cache.cache_v>>, aux |-> cache.kv_quantize]

\* builds the cache and falls off the end of the function: the caller gets None
KVCachePrefill_unflatten(auxdata, data) ==
  LET cache == Obj("KVCachePrefill", auxdata, data[1], data[2], <<>>, "none")
  IN  NoneObj

\* --------------------------------------------------------- KVCacheGenerate
\* __init__: position.shape[0] raises AttributeError when position is an int
KVCacheGenerate_init(name, k, v, position, sh) ==
  /\ cls = "None"
  /\ IF position.kind = "int"
       THEN /\ Raise(name, <<>>, "AttributeError")
            /\ UNCHANGED <<cls, cache_k, cache_v, pos, batch, sharding>>
       ELSE /\ cls' = "KVCacheGenerate"
            /\ cache_k' = k
            /\ cache_v' = v
            /\ pos' = position.v
            /\ batch' = Arange(Len(position.v))
            /\ sharding' = sh
            /\ Return(name, <<>>, <<>>)
  /\ UNCHANGED <<kv_quantize, k_scaler, v_scaler, backend>>

KVCacheGenerate_new ==
  \E kv \in InitBuffers(CacheShape), position \in PositionInputs, sh \in Shardings :
       KVCacheGenerate_init("KVCacheGenerate", kv[1], kv[2], position, sh)

\* empty(shape, device, bf16_enable): cls(k, v, 0, device)
KVCacheGenerate_empty(shape, device) ==
  KVCacheGenerate_init("KVCacheGenerate.empty", Full(shape, 0), Full(shape, 0),
                       IntPos(0), device)

\* an update that moves the stored position to the next column after writing
KVCacheGenerate_update_Advance(key, value) ==
  /\ cls = "KVCacheGenerate"
  /\ cache_k' = JaxAtSet(cache_k, batch, pos, Squeeze2(key))
  /\ cache_v' = JaxAtSet(cache_v, batch, pos, Squeeze2(value))
  /\ pos' = [n \in DOMAIN pos |-> IF pos[n] + 1 < Capacity THEN pos[n] + 1 ELSE pos[n]]
  /\ Return("update", <<key, value>>, <<cache_k', cache_v'>>)
  /\ UNCHANGED <<cls, kv_quantize, k_scaler, v_scaler, batch, sharding, backend>>

KVCacheGenerate_update(key, value) ==
  /\ cls = "KVCacheGenerate"
  /\ cache_k' = JaxAtSet(cache_k, batch, pos, Squeeze2(key))
  /\ cache_v' = JaxAtSet(cache_v, batch, pos, Squeeze2(value))
  /\ Return("update", <<key, value>>, <<cache_k', cache_v'>>)
  /\ UNCHANGED <<cls, kv_quantize, k_scaler, v_scaler, pos, batch, sharding, backend>>

KVCacheGenerate_state == <<cache_k, cache_v>>

KVCacheGenerate_flatten(cache) ==
  [data |-> <<cache.cache_k, cache.cache_v>>, aux |-> <<cache.pos, cache.sharding>>]

KVCacheGenerate_unflatten(auxdata, data) ==
  Obj("KVCacheGenerate", FALSE, data[1], data[2], auxdata[1], auxdata[2])

\* ----------------------------------------------------- Int8KVCacheGenerate
\* two's complement int8 of an integer
WrapInt8(x) == ((x + 128) % 256) - 128

\* the quotient rounded down, as Python's // does
TruncDiv_Floor(n, d) == IF d < 0 THEN (-n) \div (-d) ELSE n \div d

\* a float with an integral part converted to an integer type: truncation
TruncDiv(n, d) == Sign(n) * Sign(d) * (Abs(n) \div Abs(d))

\* the maximum taken of val instead of val.abs()
AMax_NoAbs(val, b, s) ==
  Max({val.data[<<b, h, s, d>>] : h \in Range(val.shape[2]), d \in Range(val.shape[4])})

\* torch.amax(val.abs(), axis=(1, 3), keepdim=True)[b, 0, s, 0]
AMax(val, b, s) ==
  Max({Abs(val.data[<<b, h, s, d>>]) : h \in Range(val.shape[2]), d \in Range(val.shape[4])})

\* scale / 127, in units of 1/QMAX
ScaleOf(amax) == (amax * ScaleUnit) \div QMAX

\* (v / scale).to(torch.int8): 0/0 is NaN and its conversion is `nan`
DivToInt8(v, scale, nan) ==
  IF scale = 0 THEN nan ELSE WrapInt8(TruncDiv(v * ScaleUnit, scale))

\* quantize(val): the pair (quantized values, scale)
Quantize(val, nan) ==
  LET sshape == <<val.shape[1], 1, val.shape[3], 1>>
      scale  == [shape |-> sshape,
                 data  |-> [i \in Idx(sshape) |-> ScaleOf(AMax(val, i[1], i[3]))]]
  IN  [q     |-> [shape |-> val.shape,
                  data  |-> [i \in Idx(val.shape) |->
                               DivToInt8(val.data[i], scale.data[<<i[1], 0, i[3], 0>>], nan)]],
       scale |-> scale]

\* __init__: input_pos.shape[0] raises AttributeError when input_pos is an int;
\* the sharding argument is not stored
Int8KVCacheGenerate_init(name, k, v, ks, vs, input_pos, be) ==
  /\ cls = "None"
  /\ IF input_pos.kind = "int"
       THEN /\ Raise(name, <<>>, "AttributeError")
            /\ UNCHANGED <<cls, cache_k, cache_v, k_scaler, v_scaler, pos, batch, backend>>
       ELSE /\ cls' = "Int8KVCacheGenerate"
            /\ cache_k' = k
            /\ cache_v' = v
            /\ k_scaler' = ks
            /\ v_scaler' = vs
            /\ pos' = input_pos.v
            /\ batch' = Arange(Len(input_pos.v))
            /\ backend' = be
            /\ Return(name, <<>>, <<>>)
  /\ UNCHANGED <<kv_quantize, sharding>>

Int8KVCacheGenerate_new ==
  \E kv \in InitBuffers(CacheShape), input_pos \in PositionInputs, be \in Backends :
       Int8KVCacheGenerate_init("Int8KVCacheGenerate", kv[1], kv[2],
                                Full(ScalerShape(CacheShape), ScaleUnit),
                                Full(ScalerShape(CacheShape), ScaleUnit), input_pos, be)

\* empty(shape, device, bf16_enable): cls(cache_k, cache_v, kscaler, vscaler, 0, device)
Int8KVCacheGenerate_empty(shape, device) ==
  Int8KVCacheGenerate_init("Int8KVCacheGenerate.empty", Full(shape, 0), Full(shape, 0),
                           Full(ScalerShape(shape), ScaleUnit),
                           Full(ScalerShape(shape), ScaleUnit), IntPos(0), "jax")

\* an update that quantizes the key once and stores its scale for the value too
Int8KVCacheGenerate_update_KeyScale(xk, xv, nan) ==
  /\ cls = "Int8KVCacheGenerate"
  /\ LET kq == Quantize(xk, nan)
         vq == Quantize(xv, nan)
     IN  IF backend = "torch" /\ TorchIndexError(cache_k, pos)
           THEN /\ \E done \in SUBSET {n \in 1 .. Len(pos) : InBounds(pos[n], cache_k.shape[3])} :
                     cache_k' = ScatterRows(cache_k, batch, pos, Squeeze2(kq.q), done)
                /\ Raise("update", <<xk, xv>>, "IndexError")
                /\ UNCHANGED <<cache_v, k_scaler, v_scaler>>
           ELSE /\ cache_k' = JaxAtSet(cache_k, batch, pos, Squeeze2(kq.q))
                /\ cache_v' = JaxAtSet(cache_v, batch, pos, Squeeze2(vq.q))
                /\ k_scaler' = JaxAtSet(k_scaler, batch, pos, Squeeze2(kq.scale))
                /\ v_scaler' = JaxAtSet(v_scaler, batch, pos, Squeeze2(kq.scale))
                /\ Return("update", <<xk, xv>>, <<cache_k', cache_v', k_scaler', v_scaler'>>)
  /\ UNCHANGED <<cls, kv_quantize, pos, batch, sharding, backend>>

\* update(xk, xv).  On torch storage the first indexed assignment raises
\* IndexError when a position is out of bounds, after the kernel has written
\* the rows in `done`; on jax storage such rows are dropped silently.
Int8KVCacheGenerate_update(xk, xv, nan) ==
  /\ cls = "Int8KVCacheGenerate"
  /\ LET kq == Quantize(xk, nan)
         vq == Quantize(xv, nan)
     IN  IF backend = "torch" /\ TorchIndexError(cache_k, pos)
           THEN /\ \E done \in SUBSET {n \in 1 .. Len(pos) : InBounds(pos[n], cache_k.shape[3])} :
                     cache_k' = ScatterRows(cache_k, batch, pos, Squeeze2(kq.q), done)
                /\ Raise("update", <<xk, xv>>, "IndexError")
                /\ UNCHANGED <<cache_v, k_scaler, v_scaler>>
           ELSE /\ cache_k' = JaxAtSet(cache_k, batch, pos, Squeeze2(kq.q))
                /\ cache_v' = JaxAtSet(cache_v, batch, pos, Squeeze2(vq.q))
                /\ k_scaler' = JaxAtSet(k_scaler, batch, pos, Squeeze2(kq.scale))
                /\ v_scaler' = JaxAtSet(v_scaler, batch, pos, Squeeze2(vq.scale))
                /\ Return("update", <<xk, xv>>, <<cache_k', cache_v', k_scaler', v_scaler'>>)
  /\ UNCHANGED <<cls, kv_quantize, pos, batch, sharding, backend>>

Int8KVCacheGenerate_state == <<cache_k, cache_v>>

Int8KVCacheGenerate_scalers == <<k_scaler, v_scaler>>

\* ------------------------------------------------- the cache specification
NewPrefill == \E q \in BOOLEAN : KVCachePrefill_init(q)

PrefillUpdate == \E kv \in PrefillInputs : KVCachePrefill_update(kv[1], kv[2])

GenerateEmpty == \E device \in Shardings : KVCacheGenerate_empty(CacheShape, device)

GenerateUpdate == \E kv \in StepInputs : KVCacheGenerate_update(kv[1], kv[2])

Int8Empty == \E device \in Shardings : Int8KVCacheGenerate_empty(CacheShape, device)

Int8Update ==
  \E kv \in StepInputs, nan \in NaNToInt8 : Int8KVCacheGenerate_update(kv[1], kv[2], nan)

CacheNext ==
  \/ NewPrefill
  \/ PrefillUpdate
  \/ KVCacheGenerate_new
  \/ GenerateEmpty
  \/ GenerateUpdate
  \/ Int8KVCacheGenerate_new
  \/ Int8Empty
  \/ Int8Update

\* ---------------------------------------------- quantize as a pure function
QuantShape == <<Batch, Heads, SeqLen, HeadDim>>

Vals == (-MaxVal) .. MaxVal

\* the tensors (batch, heads, seq, dim) that hold a everywhere but w in one cell
QuantInputs ==
  {[shape |-> QuantShape, data |-> [i \in Idx(QuantShape) |-> IF i = c THEN w ELSE a]] :
     a \in Vals, w \in Vals, c \in Idx(QuantShape)}

QuantIdle == q_val = NoneT /\ q_quant = NoneT /\ q_scale = NoneT

QuantInit == q_val \in QuantInputs /\ q_quant = NoneT /\ q_scale = NoneT

QuantizeCall ==
  /\ q_val # NoneT
  /\ q_quant = NoneT
  /\ \E nan \in NaNToInt8 :
       LET r == Quantize(q_val, nan)
       IN  q_quant' = r.q /\ q_scale' = r.scale
  /\ UNCHANGED <<q_val, cacheVars, envVars, layerVars, concVars, mergeVars>>

\* ---------------------------------------------------- JetEngineEnvironment
\* a name is the sequence of its dot separated segments, a segment the
\* sequence of its characters: split(".") and ".".join are the two directions
Digits == {"0", "1", "2", "3", "4", "5", "6", "7", "8", "9"}

attention == <<"a", "t", "t", "n">>

wq == <<"w", "q">>

weight == <<"w">>

output == <<"o", "u", "t">>

star == <<"*">>

\* segments a caller may put where the layer number goes
LayerSegments ==
  {<<"3">>, <<"1", "7">>, star, <<"-", "1">>, <<"1", "_", "7">>, <<"3", "x">>}

NameInputs == {<<attention, t, wq, weight>> : t \in LayerSegments} \cup {<<output, weight>>}

\* an axis: an int, or None
IntAx(n) == [none |-> FALSE, n |-> n]

NoneAx == [none |-> TRUE, n |-> 0]

\* the documents a sharding_config_path may name: every mapping of the
\* wildcarded and the layer 3 name of attention.<n>.wq.weight to 0, 1 or null
RuleNames == {<<attention, star, wq, weight>>, <<attention, <<"3">>, wq, weight>>}

RuleAxes == {IntAx(0), IntAx(1), NoneAx}

ConfigInputs == UNION {[names -> RuleAxes] : names \in SUBSET RuleNames}

EmptyConfig == [n \in {} |-> NoneAx]

attention_kv_axis_names == <<"batch", "num_attn_heads", "sequence_length", "head_dim">>

\* the cache shapes of a configuration: every axis of extent 1 or Capacity,
\* and the default ()
ShapeInputs == [1 .. 4 -> {1, Capacity}] \cup {<<>>}

ShardAxisInputs == {attention_kv_axis_names[n] : n \in 1 .. 4} \cup {"layers"}

\* configurations that differ in what the sharding reads; no layers
DataInputs ==
  [shard_on_batch : BOOLEAN, kv_cache_shard_axis : ShardAxisInputs,
   cache_shape : ShapeInputs, sharding_config : ConfigInputs,
   enable_kv_quantization : {FALSE}, num_layers : {0}, bf16_enable : {TRUE}]

\* JetEngineEnvironmentData() with its defaults
DefaultData ==
  [shard_on_batch |-> FALSE, kv_cache_shard_axis |-> "num_attn_heads",
   cache_shape |-> <<>>, sharding_config |-> EmptyConfig,
   enable_kv_quantization |-> FALSE, num_layers |-> 0, bf16_enable |-> TRUE]

\* tuple.index(x), 0-based; -1 stands for the ValueError of a missing x
Index(tuple, x) ==
  IF \E n \in DOMAIN tuple : tuple[n] = x
    THEN (CHOOSE n \in DOMAIN tuple : tuple[n] = x /\ \A k \in 1 .. (n - 1) : tuple[k] # x) - 1
    ELSE -1

\* the result of a call: an exception, or a PartitionSpec as the sequence of
\* its markers
Raised(e) == [err |-> e, spec |-> <<>>]

Returned(spec) == [err |-> "none", spec |-> spec]

\* sharding_by_axis(axis)
sharding_by_axis(axis) ==
  IF axis.none \/ axis.n = -1 THEN Returned(<<>>)
  ELSE IF axis.n < -1 THEN Raised("IndexError")
  ELSE Returned([k \in 1 .. (axis.n + 1) |-> IF k = axis.n + 1 THEN "x" ELSE "None"])

\* int(t) succeeds: blanks around an optional sign and digits, which single
\* underscores may separate
StripLeft(t) == SubSeq(t, (CHOOSE k \in 1 .. (Len(t) + 1) :
                             /\ \A j \in 1 .. (k - 1) : t[j] = " "
                             /\ (k <= Len(t) => t[k] # " ")), Len(t))

StripRight(t) == SubSeq(t, 1, (CHOOSE k \in 0 .. Len(t) :
                                 /\ \A j \in (k + 1) .. Len(t) : t[j] = " "
                                 /\ (k >= 1 => t[k] # " ")))

\* an is_integer that knows digits only
is_integer_DigitsOnly(t) ==
  /\ t # <<>>
  /\ \A k \in DOMAIN t : t[k] \in Digits

is_integer(t) ==
  LET s    == StripRight(StripLeft(t))
      body == IF s # <<>> /\ s[1] \in {"+", "-"} THEN Tail(s) ELSE s
  IN  /\ body # <<>>
      /\ \A k \in DOMAIN body : body[k] \in Digits \cup {"_"}
      /\ body[1] \in Digits
      /\ body[Len(body)] \in Digits
      /\ \A k \in 1 .. (Len(body) - 1) : ~(body[k] = "_" /\ body[k + 1] = "_")

\* process_sharding_name(name)
process_sharding_name(name) ==
  [i \in DOMAIN name |-> IF is_integer(name[i]) THEN star ELSE name[i]]

\* sharding_by_name without the lookup of the wildcarded name
sharding_by_name_LiteralOnly(name) ==
  IF env_data.shard_on_batch THEN sharding_by_axis(IntAx(0))
  ELSE IF name \in DOMAIN sharding_config THEN sharding_by_axis(sharding_config[name])
  ELSE Raised("RuntimeError")

\* sharding_by_name with the batch mode consulted only after the rules
sharding_by_name_RulesFirst(name) ==
  IF name \in DOMAIN sharding_config THEN sharding_by_axis(sharding_config[name])
  ELSE IF env_data.shard_on_batch THEN sharding_by_axis(IntAx(0))
  ELSE LET name2 == process_sharding_name(name)
       IN  IF name2 \in DOMAIN sharding_config
             THEN sharding_by_axis(sharding_config[name2])
             ELSE Raised("RuntimeError")

\* sharding_by_name that replicates a tensor without a rule
sharding_by_name_DefaultReplicated(name) ==
  IF env_data.shard_on_batch THEN sharding_by_axis(IntAx(0))
  ELSE IF name \in DOMAIN sharding_config THEN sharding_by_axis(sharding_config[name])
  ELSE LET name2 == process_sharding_name(name)
       IN  IF name2 \in DOMAIN sharding_config
             THEN sharding_by_axis(sharding_config[name2])
             ELSE sharding_by_axis(NoneAx)

\* sharding_by_name with the wildcarded rule consulted before the literal one
sharding_by_name_WildcardFirst(name) ==
  IF env_data.shard_on_batch THEN sharding_by_axis(IntAx(0))
  ELSE LET name2 == process_sharding_name(name)
       IN  IF name2 \in DOMAIN sharding_config
             THEN sharding_by_axis(sharding_config[name2])
             ELSE IF name \in DOMAIN sharding_config
               THEN sharding_by_axis(sharding_config[name])
               ELSE Raised("RuntimeError")

\* sharding_by_name(name)
sharding_by_name(name) ==
  IF env_data.shard_on_batch THEN sharding_by_axis(IntAx(0))
  ELSE IF name \in DOMAIN sharding_config THEN sharding_by_axis(sharding_config[name])
  ELSE LET name2 == process_sharding_name(name)
       IN  IF name2 \in DOMAIN sharding_config
             THEN sharding_by_axis(sharding_config[name2])
             ELSE Raised("RuntimeError")

\* the axis resolution with the fallback going to the first axis
CacheShardingAxis_FallbackFirst ==
  LET nominal == IF env_data.shard_on_batch THEN 0
                 ELSE Index(attention_kv_axis_names, env_data.kv_cache_shard_axis)
  IN  IF nominal = -1 THEN Raised("ValueError")
      ELSE IF nominal + 1 \notin DOMAIN env_data.cache_shape THEN Raised("IndexError")
      ELSE IF env_data.cache_shape[nominal + 1] = 1
             THEN Returned(<<0>>)
             ELSE Returned(<<nominal>>)

\* the axis resolution with a lookup that answers -1 for a missing name, as
\* str.find does: cache_shape[-1] is then the extent of the last axis
CacheShardingAxis_Find ==
  LET nominal == IF env_data.shard_on_batch THEN 0
                 ELSE Index(attention_kv_axis_names, env_data.kv_cache_shard_axis)
      last    == Len(env_data.cache_shape) - 1
  IN  IF env_data.cache_shape = <<>> THEN Raised("IndexError")
      ELSE IF nominal = -1 THEN Returned(<<last>>)
      ELSE IF env_data.cache_shape[nominal + 1] = 1 THEN Returned(<<last>>)
      ELSE Returned(<<nominal>>)

\* the axis __init__ resolves for the cache (cache_sharding_axis), as the
\* one-element spec of a result
CacheShardingAxis ==
  LET nominal == IF env_data.shard_on_batch THEN 0
                 ELSE Index(attention_kv_axis_names, env_data.kv_cache_shard_axis)
  IN  IF nominal = -1 THEN Raised("ValueError")
      ELSE IF nominal + 1 \notin DOMAIN env_data.cache_shape THEN Raised("IndexError")
      ELSE IF env_data.cache_shape[nominal + 1] = 1
             THEN Returned(<<Len(env_data.cache_shape) - 1>>)
             ELSE Returned(<<nominal>>)

\* a call on the environment and its result; no cache object is touched
EnvCall(name, arg, result) ==
  /\ e_op' = name
  /\ e_arg' = arg
  /\ e_err' = result.err
  /\ e_ret' = result.spec
  /\ UNCHANGED <<cacheVars, quantVars, concVars, mergeVars>>

\* JetEngineEnvironment(data)
JetEngineEnvironment_init ==
  /\ ~env
  /\ e_op = "none"
  /\ LET axis == CacheShardingAxis
     IN  IF axis.err # "none"
           THEN /\ EnvCall("JetEngineEnvironment", <<>>, axis)
                /\ UNCHANGED <<env, cache_sharding, sharding_config>>
           ELSE LET sh == sharding_by_axis(IntAx(axis.spec[1]))
                IN  /\ env' = TRUE
                    /\ cache_sharding' = sh.spec
                    /\ sharding_config' = env_data.sharding_config
                    /\ EnvCall("JetEngineEnvironment", <<>>, Returned(<<>>))
  /\ UNCHANGED <<env_data, layerVars>>

\* a sharding_by_name that remembers under the literal name what the
\* wildcarded rule answered
ShardingByName_Memo ==
  /\ env
  /\ \E name \in NameInputs :
       LET r == sharding_by_name(name)
       IN  /\ EnvCall("sharding_by_name", name, r)
           /\ sharding_config' =
                IF r.err = "none" /\ ~env_data.shard_on_batch /\ name \notin DOMAIN sharding_config
                  THEN [n \in DOMAIN sharding_config \cup {name} |->
                          IF n = name THEN sharding_config[process_sharding_name(name)]
                          ELSE sharding_config[n]]
                  ELSE sharding_config
  /\ UNCHANGED <<env_data, env, cache_sharding, layerVars>>

ShardingByName ==
  /\ env
  /\ \E name \in NameInputs : EnvCall("sharding_by_name", name, sharding_by_name(name))
  /\ UNCHANGED <<env_data, env, cache_sharding, sharding_config, layerVars>>

EnvIdle ==
  /\ env_data = DefaultData
  /\ env = FALSE
  /\ cache_sharding = <<>>
  /\ sharding_config = EmptyConfig
  /\ e_op = "none"
  /\ e_arg = <<>>
  /\ e_err = "none"
  /\ e_ret = <<>>

EnvInit ==
  /\ env_data \in DataInputs
  /\ env = FALSE
  /\ cache_sharding = <<>>
  /\ sharding_config = EmptyConfig
  /\ e_op = "none"
  /\ e_arg = <<>>
  /\ e_err = "none"
  /\ e_ret = <<>>

EnvNext ==
  \/ JetEngineEnvironment_init
  \/ ShardingByName

\* ------------------------------------------------------- caches of layers
\* configurations that differ in what the cache factories read
LayerDataInputs ==
  [shard_on_batch : {FALSE}, kv_cache_shard_axis : {"num_attn_heads"},
   cache_shape : {CacheShape}, sharding_config : {EmptyConfig},
   enable_kv_quantization : BOOLEAN, num_layers : 0 .. MaxLayers, bf16_enable : BOOLEAN]

\* the (key, value) pairs of a prompt handed to a layer
LayerInputs ==
  {<<PrefillTensor(s, SeqLen), PrefillTensor((s + 1) % NumInputs, SeqLen)>> : s \in Range(NumInputs)}

\* the result of a factory: an exception, or the cache it built
Failed(e) == [err |-> e, cache |-> NoneObj]

Built(cache) == [err |-> "none", cache |-> cache]

\* c.empty(shape, device, bf16_enable) as a value: both classes end in
\* cls(..., 0, device), whose __init__ evaluates position.shape[0]
EmptyCache(c, shape, device) ==
  LET position == IntPos(0)
  IN  IF position.kind = "int" THEN Failed("AttributeError")
      ELSE Built(Obj(c, FALSE, Full(shape, 0), Full(shape, 0), position.v,
                     IF c = "KVCacheGenerate" THEN device ELSE "none"))

\* make_caches_generate(): the loop ends at the first empty() that raises
make_caches_generate ==
  LET c    == IF env_data.enable_kv_quantization THEN "Int8KVCacheGenerate"
              ELSE "KVCacheGenerate"
      made == [n \in 1 .. env_data.num_layers |->
                 EmptyCache(c, env_data.cache_shape, cache_sharding)]
      bad  == {n \in DOMAIN made : made[n].err # "none"}
  IN  IF bad # {}
        THEN [err |-> made[CHOOSE n \in bad : \A k \in bad : n <= k].err, caches |-> <<>>]
        ELSE [err |-> "none", caches |-> [n \in DOMAIN made |-> made[n].cache]]

\* make_caches_prefill(): KVCachePrefill() for every layer
make_caches_prefill ==
  [err    |-> "none",
   caches |-> [n \in 1 .. env_data.num_layers |->
                 Obj("KVCachePrefill", FALSE, NoneT, NoneT, <<>>, "none")]]

\* cache.update(key, value) on a KVCachePrefill of the list: the cache after
\* the call and what the call returns
KVCachePrefill_update_of(cache, key, value) ==
  [cache |-> [cache EXCEPT !.cache_k = key, !.cache_v = value],
   ret   |-> IF cache.kv_quantize
               THEN LET ones == Full(<<key.shape[1], 1, key.shape[3], 1>>, ScaleUnit)
                    IN  <<key, value, ones, ones>>
               ELSE <<key, value>>]

MakeCaches(name, result) ==
  /\ env
  /\ caches' = result.caches
  /\ l_ret' = <<>>
  /\ EnvCall(name, <<>>, [err |-> result.err, spec |-> <<>>])
  /\ UNCHANGED <<env_data, env, cache_sharding, sharding_config>>

MakeCachesPrefill == MakeCaches("make_caches_prefill", make_caches_prefill)

MakeCachesGenerate == MakeCaches("make_caches_generate", make_caches_generate)

\* caches[i].update(key, value); only KVCachePrefill objects are ever in a list
LayerUpdate ==
  \E i \in DOMAIN caches, kv \in LayerInputs :
    /\ caches[i].cls = "KVCachePrefill"
    /\ LET r == KVCachePrefill_update_of(caches[i], kv[1], kv[2])
       IN  /\ caches' = [caches EXCEPT ![i] = r.cache]
           /\ l_ret' = r.ret
    /\ UNCHANGED <<cacheVars, quantVars, envVars, concVars, mergeVars>>

LayersInit ==
  /\ env_data \in LayerDataInputs
  /\ env = FALSE
  /\ cache_sharding = <<>>
  /\ sharding_config = EmptyConfig
  /\ e_op = "none"
  /\ e_arg = <<>>
  /\ e_err = "none"
  /\ e_ret = <<>>
  /\ caches = <<>>
  /\ l_ret = <<>>

LayersNext ==
  \/ JetEngineEnvironment_init
  \/ MakeCachesPrefill
  \/ MakeCachesGenerate
  \/ LayerUpdate

\* ------------------------------ an update statement by statement, and a reader
\* the classes with preallocated buffers
GenerateClasses == {"KVCacheGenerate", "Int8KVCacheGenerate"}

Buffers == <<cache_k, cache_v, k_scaler, v_scaler>>

\* the indexed assignments of update: lines 94-95, lines 173-176
Statements == IF cls = "Int8KVCacheGenerate" THEN 1 .. 4 ELSE 1 .. 2

\* what statement n of update(key, value) stores: the squeezed key and value,
\* or for the int8 cache the squeezed quantized key, quantized value, key scale
\* and value scale
Stored(n, key, value, nan) ==
  IF cls = "Int8KVCacheGenerate"
    THEN LET kq == Quantize(key, nan)
             vq == Quantize(value, nan)
         IN  Squeeze2(<<kq.q, vq.q, kq.scale, vq.scale>>[n])
    ELSE Squeeze2(<<key, value>>[n])

\* a thread enters update(key, value): it has assigned nothing yet.  One update
\* per cache is followed.
UpdateBegin ==
  /\ cls \in GenerateClasses
  /\ u_pc = 0
  /\ op # "update"
  /\ \E kv \in StepInputs, nan \in NaNToInt8 :
       /\ cls = "KVCacheGenerate" => nan = 0
       /\ u_args' = <<kv[1], kv[2], nan>>
  /\ u_pre' = Buffers
  /\ u_pc' = 1
  /\ UNCHANGED <<cacheVars, quantVars, envVars, layerVars, mergeVars, seen, seen_pc>>

\* the thread executes the next indexed assignment, and returns after the last.
\* The first assignment of the int8 cache raises IndexError on torch storage
\* when a position is out of bounds, having written the rows in `done`.
UpdateStatement ==
  /\ u_pc \in Statements
  /\ LET src  == Stored(u_pc, u_args[1], u_args[2], u_args[3])
         old  == Buffers[u_pc]
         fail == cls = "Int8KVCacheGenerate" /\ backend = "torch" /\ TorchIndexError(old, pos)
         last == u_pc + 1 \notin Statements
     IN  /\ \E new \in IF fail
                         THEN {ScatterRows(old, batch, pos, src, done) :
                                 done \in SUBSET {n \in 1 .. Len(pos) : InBounds(pos[n], old.shape[3])}}
                         ELSE {JaxAtSet(old, batch, pos, src)} :
               /\ cache_k' = IF u_pc = 1 THEN new ELSE cache_k
               /\ cache_v' = IF u_pc = 2 THEN new ELSE cache_v
               /\ k_scaler' = IF u_pc = 3 THEN new ELSE k_scaler
               /\ v_scaler' = IF u_pc = 4 THEN new ELSE v_scaler
         /\ u_pc' = IF fail \/ last THEN 0 ELSE u_pc + 1
         /\ IF fail
              THEN op' = "update" /\ args' = <<u_args[1], u_args[2]>> /\ err' = "IndexError"
                   /\ ret' = <<>>
              ELSE IF last
                THEN /\ op' = "update" /\ args' = <<u_args[1], u_args[2]>> /\ err' = "none"
                     /\ ret' = IF cls = "Int8KVCacheGenerate"
                                 THEN <<cache_k', cache_v', k_scaler', v_scaler'>>
                                 ELSE <<cache_k', cache_v'>>
                ELSE UNCHANGED <<op, args, err, ret>>
  /\ UNCHANGED <<cls, kv_quantize, pos, batch, sharding, backend>>
  /\ UNCHANGED <<quantVars, envVars, layerVars, mergeVars, u_args, u_pre, seen, seen_pc>>

\* another thread reads the cache: state(), with scalers() for the int8 cache
ReadState ==
  /\ cls \in GenerateClasses
  /\ seen' = Buffers
  /\ seen_pc' = u_pc
  /\ UNCHANGED <<cacheVars, quantVars, envVars, layerVars, mergeVars, u_pc, u_args, u_pre>>

ConcNext ==
  \/ KVCacheGenerate_new
  \/ Int8KVCacheGenerate_new
  \/ UpdateBegin
  \/ UpdateStatement
  \/ ReadState

\* ------------------------------------------------- names of parameters
\* the characters of a segment: two digits, a blank, the signs, the
\* underscore and a letter
SegmentChars == {"3", "7", " ", "-", "+", "_", "x"}

SegmentInputs == UNION {[1 .. n -> SegmentChars] : n \in 0 .. MaxSeg}

\* a.<segment>.b for every segment, a and b a word or a number
ParamNames == {<<a, t, b>> : a \in {wq, <<"3">>}, t \in SegmentInputs, b \in {weight, <<"7">>}}

\* process_sharding_name(name), called on its own: one call per name, the
\* function keeps nothing between calls
ProcessShardingName ==
  /\ e_op = "none"
  /\ \E name \in ParamNames :
       EnvCall("process_sharding_name", name, Returned(process_sharding_name(name)))
  /\ UNCHANGED <<env_data, env, cache_sharding, sharding_config, layerVars>>

\* ------------------------------------------- every call on an environment
\* the axes a caller may name: 0, 1, None, -1 and -2
AxisInputs == RuleAxes \cup {IntAx(-1), IntAx(-2)}

\* env.sharding_by_axis(axis)
ShardingByAxis ==
  /\ env
  /\ \E axis \in AxisInputs : EnvCall("sharding_by_axis", axis, sharding_by_axis(axis))
  /\ UNCHANGED <<env_data, env, cache_sharding, sharding_config, layerVars>>

\* env.apply_sharding(tensor, axis=axis): a tensor that is no XLATensor2 is left
\* alone; the result recorded is the constraint put on the tensor
ApplySharding ==
  /\ env
  /\ \E wrapped \in BOOLEAN, axis \in AxisInputs :
       EnvCall("apply_sharding", <<wrapped, axis>>,
               IF wrapped THEN sharding_by_axis(axis) ELSE Returned(<<>>))
  /\ UNCHANGED <<env_data, env, cache_sharding, sharding_config, layerVars>>

SessionInit ==
  /\ env_data \in DataInputs \cup LayerDataInputs
  /\ env = FALSE
  /\ cache_sharding = <<>>
  /\ sharding_config = EmptyConfig
  /\ e_op = "none"
  /\ e_arg = <<>>
  /\ e_err = "none"
  /\ e_ret = <<>>
  /\ caches = <<>>
  /\ l_ret = <<>>

SessionNext ==
  \/ JetEngineEnvironment_init
  \/ ShardingByName
  \/ ShardingByAxis
  \/ ApplySharding
  \/ MakeCachesPrefill
  \/ MakeCachesGenerate

\* ---------------------------------------------------- convert_checkpoints
\* a weight key is the sequence of its words and separators, so that
\* key.endswith(pattern) is the suffix relation of sequences
WEIGHT_SHARDING_TYPE ==
  << <<<<"tok", "_", "embeddings", ".", "weight">>, "ParallelEmbedding">>,
     <<<<"rope", ".", "freqs">>, "None">>,
     <<<<"attention", ".", "wq", ".", "weight">>, "ColumnParallelLinear">>,
     <<<<"attention", ".", "wk", ".", "weight">>, "ColumnParallelLinear">>,
     <<<<"attention", ".", "wv", ".", "weight">>, "ColumnParallelLinear">>,
     <<<<"attention", ".", "wo", ".", "weight">>, "RowParallelLinear">>,
     <<<<"feed", "_", "forward", ".", "w1", ".", "weight">>, "ColumnParallelLinear">>,
     <<<<"feed", "_", "forward", ".", "w2", ".", "weight">>, "RowParallelLinear">>,
     <<<<"feed", "_", "forward", ".", "w3", ".", "weight">>, "ColumnParallelLinear">>,
     <<<<"attention", "_", "norm", ".", "weight">>, "None">>,
     <<<<"ffn", "_", "norm", ".", "weight">>, "None">>,
     <<<<"norm", ".", "weight">>, "None">>,
     <<<<"output", ".", "weight">>, "ColumnParallelLinear">> >>

\* key.endswith(pattern)
EndsWith(key, pattern) ==
  /\ Len(pattern) <= Len(key)
  /\ SubSeq(key, Len(key) - Len(pattern) + 1, Len(key)) = pattern

\* the keys of the shards a caller may pass: a column parallel, a row
\* parallel and an embedding weight, a replicated weight that ends with two
\* patterns, and a weight that ends with no pattern
SampleKeys ==
  { <<"layers", ".", "0", ".", "attention", ".", "wq", ".", "weight">>,
    <<"layers", ".", "0", ".", "attention", ".", "wo", ".", "weight">>,
    <<"tok", "_", "embeddings", ".", "weight">>,
    <<"layers", ".", "0", ".", "attention", "_", "norm", ".", "weight">>,
    <<"layers", ".", "0", ".", "attention", ".", "wq", ".", "bias">> }

\* the keys of a dict in insertion order: lists of distinct keys
KeyLists ==
  {l \in UNION {[1 .. n -> SampleKeys] : n \in 0 .. MaxKeys} :
     \A i \in DOMAIN l, j \in DOMAIN l : i # j => l[i] # l[j]}

\* a dict: a function of a set of keys; {} is the empty dict
EmptyDict == [k \in {} |-> <<>>]

DictUpdate(d, e) ==
  [k \in DOMAIN d \cup DOMAIN e |-> IF k \in DOMAIN e THEN e[k] ELSE d[k]]

\* a tensor of two dimensions: its dtype and its rows; values are in units of
\* 1e-6
Tensor2(dtype, rows) == [dtype |-> dtype, rows |-> rows]

Shape2(t) == <<Len(t.rows), Len(t.rows[1])>>

\* how the shards of a checkpoint differ: not at all, by less than the
\* tolerance, by more, in the shape of the last shard, in its keys
Variations == {"same", "close", "values", "shapes", "keys"}

\* the tensor shard s of n holds under every key
ShardTensor(vary, s, n) ==
  LET v == CASE vary = "close"  -> IF s > 1 THEN 5 ELSE 4
             [] vary = "values" -> 4 + 2 * (s - 1)
             [] OTHER           -> 4
      row == <<v, v + 10>>
  IN  Tensor2("bfloat16",
              IF vary = "shapes" /\ s = n /\ n > 1 THEN <<row, row>> ELSE <<row>>)

\* the list of n shards with the keys of keylist
Shards(keylist, n, vary) ==
  [s \in 1 .. n |->
     LET keys == {keylist[i] : i \in DOMAIN keylist}
         mine == IF vary = "keys" /\ s = n /\ n > 1 /\ keylist # <<>>
                   THEN keys \ {keylist[1]} ELSE keys
     IN  [k \in mine |-> ShardTensor(vary, s, n)]]

\* _checkpoints_have_same_weight_keys(checkpoint_list)
checkpoints_have_same_weight_keys(checkpoint_list) ==
  \/ Len(checkpoint_list) <= 1
  \/ \A m \in 2 .. Len(checkpoint_list) :
       DOMAIN checkpoint_list[m] = DOMAIN checkpoint_list[1]

\* _tensors_have_same_shape(tensors)
tensors_have_same_shape(tensors) ==
  \/ Len(tensors) <= 1
  \/ \A t \in 2 .. Len(tensors) : Shape2(tensors[t]) = Shape2(tensors[1])

\* torch.cat(tensors, 0) and torch.cat(tensors, 1) of tensors of one shape
RECURSIVE Concat(_)
Concat(seqs) == IF seqs = <<>> THEN <<>> ELSE Head(seqs) \o Concat(Tail(seqs))

TorchCat(tensors, dim) ==
  Tensor2(tensors[1].dtype,
          IF dim = 0 THEN Concat([s \in DOMAIN tensors |-> tensors[s].rows])
          ELSE [r \in DOMAIN tensors[1].rows |->
                  Concat([s \in DOMAIN tensors |-> tensors[s].rows[r]])])

AbsDiff(x, y) == IF x < y THEN y - x ELSE x - y

\* torch.allclose(a, b, atol=1e-6): |a - b| <= atol + rtol * |b| in every
\* cell, rtol being 1e-5
AllClose(a, b) ==
  \A r \in DOMAIN a.rows : \A c \in DOMAIN a.rows[r] :
    100000 * AbsDiff(a.rows[r][c], b.rows[r][c]) <= 100000 + AbsDiff(b.rows[r][c], 0)

\* tensor.float()
Float(t) == Tensor2("float32", t.rows)

Merged(e, d) == [err |-> e, dict |-> d]

\* the loop over _WEIGHT_SHARDING_TYPE.items() from item i on: d is
\* state_dict_for_key so far
RECURSIVE ForPatterns(_, _, _, _, _)
ForPatterns(i, key, tensors, float32, d) ==
  IF i > Len(WEIGHT_SHARDING_TYPE) THEN Merged("none", d)
  ELSE LET pattern == WEIGHT_SHARDING_TYPE[i][1]
           kind    == WEIGHT_SHARDING_TYPE[i][2]
           conv(t) == IF float32 THEN Float(t) ELSE t
       IN  IF ~EndsWith(key, pattern) THEN ForPatterns(i + 1, key, tensors, float32, d)
           ELSE IF kind \in {"ParallelEmbedding", "RowParallelLinear"}
             THEN ForPatterns(i + 1, key, tensors, float32,
                              DictUpdate(d, [k \in {key} |-> conv(TorchCat(tensors, 1))]))
           ELSE IF kind = "ColumnParallelLinear"
             THEN ForPatterns(i + 1, key, tensors, float32,
                              DictUpdate(d, [k \in {key} |-> conv(TorchCat(tensors, 0))]))
           ELSE IF \E t \in 2 .. Len(tensors) : ~AllClose(tensors[1], tensors[t])
             THEN Merged("ValueError", d)
           ELSE ForPatterns(i + 1, key, tensors, float32,
                            DictUpdate(d, [k \in {key} |-> conv(tensors[1])]))

\* a run so far: the exception, state_dict and the files of tmp_dir
Run(e, d, files) == [err |-> e, state_dict |-> d, tmp_dir |-> files]

\* the loop over weight_keys from key i on
RECURSIVE ForKeys(_, _, _, _, _, _)
ForKeys(i, weight_keys, shards, minimize, float32, run) ==
  IF i > Len(weight_keys) THEN run
  ELSE LET key     == weight_keys[i]
           tensors == [s \in DOMAIN shards |-> shards[s][key]]
       IN  IF ~tensors_have_same_shape(tensors)
             THEN Run("ValueError", run.state_dict, run.tmp_dir)
           ELSE LET m == ForPatterns(1, key, tensors, float32, EmptyDict)
                IN  IF m.err # "none" THEN Run(m.err, run.state_dict, run.tmp_dir)
                    ELSE IF minimize
                      THEN ForKeys(i + 1, weight_keys, shards, minimize, float32,
                                   Run("none", run.state_dict,
                                       DictUpdate(run.tmp_dir, [f \in {key} |-> m.dict])))
                      ELSE ForKeys(i + 1, weight_keys, shards, minimize, float32,
                                   Run("none", DictUpdate(run.state_dict, m.dict), run.tmp_dir))

\* state_dict.update(torch.load(path)) for the paths of tmp_dir.glob("*.pth")
\* in sorted order: the file <key>.pth holds a dict of no key or of key alone
LoadAll(files) ==
  [k \in {f \in DOMAIN files : files[f] # EmptyDict} |-> files[k][k]]

\* _merge_llama_weights(checkpoints, minimize_memory_footprint, enable_float32)
\* and the files it finds in /tmp/checkpoints; weight_keys is the key list of
\* checkpoints[0]
merge_llama_weights(weight_keys, shards, minimize, float32, files) ==
  IF ~checkpoints_have_same_weight_keys(shards) THEN Run("ValueError", EmptyDict, files)
  ELSE IF shards = <<>> THEN Run("IndexError", EmptyDict, files)
  ELSE LET run == ForKeys(1, weight_keys, shards, minimize, float32,
                          Run("none", EmptyDict, files))
       IN  IF run.err # "none" \/ ~minimize THEN run
           ELSE Run("none", DictUpdate(run.state_dict, LoadAll(run.tmp_dir)), EmptyDict)

MergeIdle ==
  /\ checkpoints = <<>>
  /\ minimize_memory_footprint = FALSE
  /\ enable_float32 = FALSE
  /\ tmp_dir = EmptyDict
  /\ state_dict = EmptyDict
  /\ m_err = "none"
  /\ runs = 0

\* one run of the merge on the machine
MergeLlamaWeights ==
  /\ runs < MaxRuns
  /\ \E keylist \in KeyLists, n \in 0 .. MaxShards, minimize \in BOOLEAN, float32 \in BOOLEAN :
     \E vary \in (IF n > 1 THEN Variations ELSE {"same"}) :
       LET shards == Shards(keylist, n, vary)
           run    == merge_llama_weights(keylist, shards, minimize, float32, tmp_dir)
       IN  /\ checkpoints' = shards
           /\ minimize_memory_footprint' = minimize
           /\ enable_float32' = float32
           /\ tmp_dir' = run.tmp_dir
           /\ state_dict' = run.state_dict
           /\ m_err' = run.err
  /\ runs' = runs + 1
  /\ UNCHANGED <<cacheVars, quantVars, envVars, layerVars, concVars>>

\* ----------------------------------------------------------- specifications
LayersIdle == caches = <<>> /\ l_ret = <<>>

ConcIdle == u_pc = 0 /\ u_args = <<>> /\ u_pre = <<>> /\ seen = <<>> /\ seen_pc = 0

\* one cache object of any class
InitCache == CacheInit /\ QuantIdle /\ EnvIdle /\ LayersIdle /\ ConcIdle /\ MergeIdle

SpecCache == InitCache /\ [][CacheNext]_vars

\* one call of quantize
InitQuant == CacheInit /\ QuantInit /\ EnvIdle /\ LayersIdle /\ ConcIdle /\ MergeIdle

SpecQuant == InitQuant /\ [][QuantizeCall]_vars

\* one environment
InitEnv == CacheInit /\ QuantIdle /\ EnvInit /\ LayersIdle /\ ConcIdle /\ MergeIdle

SpecEnv == InitEnv /\ [][EnvNext]_vars

\* one environment and the caches of its layers
InitLayers == CacheInit /\ QuantIdle /\ LayersInit /\ ConcIdle /\ MergeIdle

SpecLayers == InitLayers /\ [][LayersNext]_vars

\* one Generate cache, a thread that updates it and a thread that reads it
SpecConc == InitCache /\ [][ConcNext]_vars

\* the names of parameters and their normalisation
InitNames == InitCache

SpecNames == InitNames /\ [][ProcessShardingName]_vars

\* the merge of the shards of a checkpoint
InitMerge == InitCache

SpecMerge == InitMerge /\ [][MergeLlamaWeights]_vars

\* one environment and every call its users make on it
InitSession == CacheInit /\ QuantIdle /\ SessionInit /\ ConcIdle /\ MergeIdle

SpecSession == InitSession /\ [][SessionNext]_vars

\* ------------------------------------------------------ claims on the caches
\* the column of a buffer with `size` columns that position p names, Python
\* style: p itself, or p + size for a negative p
Names(p, size, c) == c = p \/ c = p + size

\* the cells of `before` that no (row, position) pair names keep their value
OthersKept(before, after, ps) ==
  /\ after.shape = before.shape
  /\ \A i \in Idx(before.shape) :
       ~Names(ps[i[1] + 1], before.shape[3], i[3]) => after.data[i] = before.data[i]

\* C1: write locality.  A step on a Generate cache (wide or int8) whose stored
\* position for row b is p[b] changes no cell of the key and value buffers, nor
\* of the scale buffers of the int8 cache, outside the cells (b, *, p[b], *).
C1_WriteLocality ==
  [][(cls \in GenerateClasses /\ cls' = cls) =>
       /\ OthersKept(cache_k, cache_k', pos)
       /\ OthersKept(cache_v, cache_v', pos)
       /\ cls = "Int8KVCacheGenerate" =>
            (OthersKept(k_scaler, k_scaler', pos) /\ OthersKept(v_scaler, v_scaler', pos))]_vars

\* an update has written row 0 at an in-range column of a pattern-filled wide
\* cache: the written cell differs from a cell of another column of the row,
\* which still holds its non-zero pattern value
C1_Witness ==
  /\ cls = "KVCacheGenerate"
  /\ op = "update"
  /\ err = "none"
  /\ pos[1] \in Range(Capacity)
  /\ \E c \in Range(Capacity) :
       /\ c # pos[1]
       /\ cache_k.data[<<0, 0, c, 0>>] = PatternBuffer(CacheShape, 1).data[<<0, 0, c, 0>>]
       /\ cache_k.data[<<0, 0, pos[1], 0>>] = args[1].data[<<0, 0, 0, 0>>]
       /\ cache_k.data[<<0, 0, pos[1], 0>>]
            # PatternBuffer(CacheShape, 1).data[<<0, 0, pos[1], 0>>]

EmptyCalls == {"KVCacheGenerate.empty", "Int8KVCacheGenerate.empty"}

\* C2: empty-cache invariants.  After a call of KVCacheGenerate.empty or
\* Int8KVCacheGenerate.empty the call has returned a cache of the class, whose
\* key and value buffers have the asked shape and are zero in every cell, whose
\* position is 0 and, for the int8 cache, whose scale buffers have shape
\* (B, 1, C, 1) and are one in every entry.
C2_EmptyCache ==
  op \in EmptyCalls =>
    /\ err = "none"
    /\ cls = (IF op = "KVCacheGenerate.empty" THEN "KVCacheGenerate" ELSE "Int8KVCacheGenerate")
    /\ cache_k.shape = CacheShape
    /\ cache_v.shape = CacheShape
    /\ \A i \in Idx(CacheShape) : cache_k.data[i] = 0 /\ cache_v.data[i] = 0
    /\ \A n \in DOMAIN pos : pos[n] = 0
    /\ op = "Int8KVCacheGenerate.empty" =>
         /\ k_scaler.shape = <<Batch, 1, Capacity, 1>>
         /\ v_scaler.shape = <<Batch, 1, Capacity, 1>>
         /\ \A i \in Idx(<<Batch, 1, Capacity, 1>>) :
              k_scaler.data[i] = ScaleUnit /\ v_scaler.data[i] = ScaleUnit

\* C3: position bounds.  An update of a Generate cache with a position outside
\* [0, capacity) for some row ends in an error.
C3_PositionBounds ==
  (cls \in GenerateClasses /\ op = "update" /\ \E n \in DOMAIN pos : pos[n] \notin Range(Capacity))
    => err # "none"

\* C4: prefill overwrite.  state() of a prefill cache is the (key, value) pair
\* of the most recent update, and (None, None) before any update.
C4_PrefillOverwrite ==
  cls = "KVCachePrefill" =>
    IF op = "update" THEN KVCachePrefill_state = <<args[1], args[2]>>
    ELSE KVCachePrefill_state = <<NoneT, NoneT>>

\* an update has stored a key that differs from the value stored with it
C4_Witness ==
  /\ cls = "KVCachePrefill"
  /\ op = "update"
  /\ cache_k = args[1]
  /\ cache_v = args[2]
  /\ cache_k # cache_v
  /\ cache_k.shape[3] = SeqLen

\* reconstruction from the flattened parts, by the functions registered for the class
FlattenUnflatten ==
  IF cls = "KVCachePrefill"
    THEN LET flat == KVCachePrefill_flatten(Self)
         IN  KVCachePrefill_unflatten(flat.aux, flat.data)
    ELSE LET flat == KVCacheGenerate_flatten(Self)
         IN  KVCacheGenerate_unflatten(flat.aux, flat.data)

\* C5: flatten/reconstruct round trip.  For a cache of a class with registered
\* flatten and unflatten functions, unflatten(flatten(cache)) is a cache of the
\* same class with equal buffers, position, sharding and quantization flag.
C5_RoundTrip ==
  cls \in {"KVCachePrefill", "KVCacheGenerate"} => FlattenUnflatten = Self

\* ------------------------------------------------------- claims on quantize
\* the (batch row, sequence position) pairs of the quantize argument
Slabs == Range(q_val.shape[1]) \X Range(q_val.shape[3])

SlabCells(bs) == {i \in Idx(q_val.shape) : i[1] = bs[1] /\ i[3] = bs[2]}

ScaleAt(bs) == q_scale.data[<<bs[1], 0, bs[2], 0>>]

\* C8: zero-tensor quantization.  After quantize, a (row, position) of the
\* argument that is zero in every head and element has scale zero and a
\* quantized output that is zero in every head and element.
C8_ZeroTensor ==
  q_quant # NoneT =>
    \A bs \in Slabs :
      (\A i \in SlabCells(bs) : q_val.data[i] = 0) =>
        (ScaleAt(bs) = 0 /\ \A i \in SlabCells(bs) : q_quant.data[i] = 0)

\* C9: round-trip bound.  After quantize, where the scale of a (row, position)
\* is not zero, every element v and its quantized q satisfy
\* |v - q * scale| <= scale, and v = q * scale when v is an integer multiple of
\* the scale.  (Scales are in units of 1/ScaleUnit, so both sides are
\* multiplied by ScaleUnit.)
C9_RoundTripBound ==
  q_quant # NoneT =>
    \A i \in Idx(q_val.shape) :
      LET su == ScaleAt(<<i[1], i[3]>>)
          v  == q_val.data[i] * ScaleUnit
          dq == q_quant.data[i] * su
      IN  su # 0 =>
            /\ Abs(v - dq) <= su
            /\ (v % su = 0) => (v = dq)

\* quantize has run on a tensor with an element that is not a multiple of its
\* non-zero scale and one that is
C9_Witness ==
  /\ q_quant # NoneT
  /\ \E i \in Idx(q_val.shape), j \in Idx(q_val.shape) :
       LET su == ScaleAt(<<i[1], i[3]>>)
       IN  /\ i[1] = j[1] /\ i[3] = j[3]
           /\ su # 0
           /\ (q_val.data[i] * ScaleUnit) % su # 0
           /\ q_val.data[i] * ScaleUnit # q_quant.data[i] * su
           /\ q_val.data[j] # 0
           /\ (q_val.data[j] * ScaleUnit) % su = 0

\* scale[b, 0, s, 0] = max over heads and elements of |val[b, :, s, :]| / 127
ScaleIsAMaxOver127 ==
  \A bs \in Slabs :
    \E m \in 0 .. MaxVal :
      /\ \A i \in SlabCells(bs) : Abs(q_val.data[i]) <= m
      /\ \E i \in SlabCells(bs) : Abs(q_val.data[i]) = m
      /\ ScaleAt(bs) * QMAX = m * ScaleUnit

\* C10 as stated: the scale is amax / 127 and, where it is not zero, every
\* quantized element is val / scale rounded to the nearest integer, within
\* [-128, 127].
C10_RoundToNearest ==
  q_quant # NoneT =>
    /\ ScaleIsAMaxOver127
    /\ \A i \in Idx(q_val.shape) :
         LET su == ScaleAt(<<i[1], i[3]>>)
         IN  su # 0 =>
               /\ q_quant.data[i] \in (-128) .. 127
               /\ 2 * Abs(q_val.data[i] * ScaleUnit - q_quant.data[i] * su) <= su

\* C10 amended: the scale is amax / 127 and, where it is not zero, every
\* quantized element is val / scale truncated toward zero, within [-128, 127].
C10_Truncation ==
  q_quant # NoneT =>
    /\ ScaleIsAMaxOver127
    /\ \A i \in Idx(q_val.shape) :
         LET su == ScaleAt(<<i[1], i[3]>>)
             v  == q_val.data[i] * ScaleUnit
             q  == q_quant.data[i]
         IN  su # 0 =>
               /\ q \in (-128) .. 127
               /\ q * q_val.data[i] >= 0
               /\ Abs(q) * su <= Abs(v)
               /\ Abs(v) < (Abs(q) + 1) * su

\* quantize has run on a tensor with a negative element whose quotient by the
\* scale is not an integer, in a row and position other than the first
C10_Witness ==
  /\ q_quant # NoneT
  /\ \E i \in Idx(q_val.shape) :
       LET su == ScaleAt(<<i[1], i[3]>>)
       IN  /\ i[1] > 0 /\ i[3] > 0
           /\ su # 0
           /\ q_val.data[i] < 0
           /\ (q_val.data[i] * ScaleUnit) % su # 0
           /\ q_quant.data[i] < 0

\* --------------------------------------------------- claims on the environment
\* the PartitionSpec that partitions the 0-based axis n along x
PartitionAxis(n) == [k \in 1 .. (n + 1) |-> IF k = n + 1 THEN "x" ELSE "None"]

\* the nominal cache shard axis of a configuration, 0-based
NominalAxis ==
  IF env_data.shard_on_batch THEN 0
  ELSE (CHOOSE k \in 1 .. 4 : attention_kv_axis_names[k] = env_data.kv_cache_shard_axis) - 1

\* C6: sharding axis fallback.  In a constructed environment cache_sharding
\* partitions the last axis of cache_shape when the nominal axis has extent 1,
\* and the nominal axis otherwise.
C6_ShardingAxisFallback ==
  env =>
    IF env_data.cache_shape[NominalAxis + 1] = 1
      THEN cache_sharding = PartitionAxis(Len(env_data.cache_shape) - 1)
      ELSE cache_sharding = PartitionAxis(NominalAxis)

\* an environment built for a cache of one head and more than one element per
\* head, sharded by num_attn_heads: the sharding fell back to axis 3
C6_Witness ==
  /\ env
  /\ ~env_data.shard_on_batch
  /\ env_data.kv_cache_shard_axis = "num_attn_heads"
  /\ env_data.cache_shape[2] = 1
  /\ env_data.cache_shape[4] # 1
  /\ cache_sharding = <<"None", "None", "None", "x">>

PurelyNumeric(t) == t # <<>> /\ \A k \in DOMAIN t : t[k] \in Digits

\* two names that differ only in their purely numeric segments
SameUpToNumbers(n1, n2) ==
  /\ Len(n1) = Len(n2)
  /\ \A i \in DOMAIN n1 : n1[i] = n2[i] \/ (PurelyNumeric(n1[i]) /\ PurelyNumeric(n2[i]))

LastResult == [err |-> e_err, spec |-> e_ret]

\* C7 as stated: with shard_on_batch off, a call of sharding_by_name gives the
\* result of every name that differs from its argument only in purely numeric
\* segments when a rule is registered under the wildcarded form, and raises for
\* a name that has neither a literal rule nor a rule under its wildcarded form.
C7_WildcardResolution ==
  (env /\ ~env_data.shard_on_batch /\ e_op = "sharding_by_name") =>
    LET form == process_sharding_name(e_arg)
    IN  /\ \A n2 \in NameInputs :
             (SameUpToNumbers(e_arg, n2) /\ form \in DOMAIN sharding_config)
               => sharding_by_name(n2) = LastResult
        /\ (e_arg \notin DOMAIN sharding_config /\ form \notin DOMAIN sharding_config)
             => e_err = "RuntimeError"

\* C7 amended: with shard_on_batch off, for a name without a literal rule a
\* call of sharding_by_name returns the sharding of the rule registered under
\* process_sharding_name(name), as it does for every name without a literal
\* rule that differs only in purely numeric segments, and raises RuntimeError
\* when no rule is registered under process_sharding_name(name).
C7_WildcardNoLiteral ==
  (env /\ ~env_data.shard_on_batch /\ e_op = "sharding_by_name"
       /\ e_arg \notin DOMAIN sharding_config) =>
    LET form == process_sharding_name(e_arg)
    IN  IF form \in DOMAIN sharding_config
          THEN /\ LastResult = sharding_by_axis(sharding_config[form])
               /\ \A n2 \in NameInputs :
                    (SameUpToNumbers(e_arg, n2) /\ n2 \notin DOMAIN sharding_config)
                      => sharding_by_name(n2) = LastResult
          ELSE e_err = "RuntimeError"

\* attention.17.wq.weight has been resolved through the rule of
\* attention.*.wq.weight, which names axis 1
C7_Witness ==
  /\ env
  /\ ~env_data.shard_on_batch
  /\ e_op = "sharding_by_name"
  /\ e_arg = <<attention, <<"1", "7">>, wq, weight>>
  /\ <<attention, star, wq, weight>> \in DOMAIN sharding_config
  /\ sharding_config[<<attention, star, wq, weight>>] = IntAx(1)
  /\ e_err = "none"
  /\ e_ret = <<"None", "x">>

\* ------------------------------------------------- further claims on caches
\* the rows of the cache whose stored position names a column
RowsInBounds == {n \in 1 .. Len(pos) : InBounds(pos[n], Capacity)}

\* buffer buf holds at row n's column the step tensor src (b, h, 1, d)
HoldsStep(buf, src, n) ==
  \A h \in Range(buf.shape[2]), d \in Range(buf.shape[4]) :
    buf.data[<<n - 1, h, NormIndex(pos[n], Capacity), d>>] = src.data[<<n - 1, h, 0, d>>]

\* C11: Int8 update.  After Int8KVCacheGenerate.update(xk, xv) has returned,
\* for every row the key buffer at the row's position holds the quantized
\* xk row and the key scale buffer its scale, the value buffer and value scale
\* buffer hold the same of xv, and the call returned (key, value, key scale,
\* value scale).
C11_Int8Update ==
  (cls = "Int8KVCacheGenerate" /\ op = "update" /\ err = "none") =>
    /\ ret = <<cache_k, cache_v, k_scaler, v_scaler>>
    /\ \E nk \in NaNToInt8, nv \in NaNToInt8 :
         LET kq == Quantize(args[1], nk)
             vq == Quantize(args[2], nv)
         IN  \A n \in RowsInBounds :
               /\ HoldsStep(cache_k, kq.q, n)
               /\ HoldsStep(k_scaler, kq.scale, n)
               /\ HoldsStep(cache_v, vq.q, n)
               /\ HoldsStep(v_scaler, vq.scale, n)

\* an update has stored a key and a value of different scales for two rows at
\* two different columns
C11_Witness ==
  /\ cls = "Int8KVCacheGenerate"
  /\ op = "update"
  /\ err = "none"
  /\ pos = <<0, 1>>
  /\ k_scaler.data[<<0, 0, 0, 0>>] # v_scaler.data[<<0, 0, 0, 0>>]
  /\ k_scaler.data[<<1, 0, 1, 0>>] # v_scaler.data[<<1, 0, 1, 0>>]
  /\ k_scaler.data[<<0, 0, 0, 0>>] # k_scaler.data[<<1, 0, 1, 0>>]
  /\ cache_k # cache_v

IsBuffer(buf, shape) == buf.shape = shape /\ DOMAIN buf.data = Idx(shape)

\* C12: fixed capacity.  In every state of a Generate cache the key and value
\* buffers have the shape (batch, heads, capacity, head_dim) they were
\* allocated with, and the scale buffers of the quantized variant the shape
\* (batch, 1, capacity, 1).
C12_FixedCapacity ==
  /\ cls \in GenerateClasses => IsBuffer(cache_k, CacheShape) /\ IsBuffer(cache_v, CacheShape)
  /\ cls = "Int8KVCacheGenerate" =>
       /\ IsBuffer(k_scaler, ScalerShape(CacheShape))
       /\ IsBuffer(v_scaler, ScalerShape(CacheShape))

\* an update has returned on a cache whose position is one past the last column
C12_Witness ==
  /\ cls \in GenerateClasses
  /\ op = "update"
  /\ err = "none"
  /\ \E n \in 1 .. Len(pos) : pos[n] = Capacity
  /\ IsBuffer(cache_k, CacheShape)

\* C13: prefill update signature.  KVCachePrefill.update(key, value) returns
\* (key, value, ones, ones) with ones of shape (batch, 1, seq, 1) and every
\* entry one when kv_quantize is set, and (key, value) otherwise.
C13_PrefillSignature ==
  (cls = "KVCachePrefill" /\ op = "update") =>
    /\ err = "none"
    /\ IF kv_quantize
         THEN /\ Len(ret) = 4
              /\ ret[1] = args[1]
              /\ ret[2] = args[2]
              /\ ret[3] = ret[4]
              /\ ret[3].shape = <<args[1].shape[1], 1, args[1].shape[3], 1>>
              /\ DOMAIN ret[3].data = Idx(ret[3].shape)
              /\ \A i \in DOMAIN ret[3].data : ret[3].data[i] = ScaleUnit
         ELSE ret = args

\* a quantizing prefill cache has returned four tensors for a prompt of
\* SeqLen tokens
C13_Witness ==
  /\ cls = "KVCachePrefill"
  /\ kv_quantize
  /\ op = "update"
  /\ Len(ret) = 4
  /\ args[1].shape[3] = SeqLen
  /\ args[1].shape[2] > 1

\* -------------------------------------------- further claims on the environment
AxisNames == {attention_kv_axis_names[n] : n \in DOMAIN attention_kv_axis_names}

Constructed == e_op = "JetEngineEnvironment"

HasRule(name) ==
  name \in DOMAIN sharding_config \/ process_sharding_name(name) \in DOMAIN sharding_config

\* C17 as stated: a missing rule aborts the construction of the environment,
\* so no sharding_by_name call on a constructed environment raises the
\* missing rule error.
C17_MissingRuleAtConstruction ==
  (env /\ e_op = "sharding_by_name") => e_err # "RuntimeError"

\* C17 amended: the constructor loads the sharding configuration as it is and
\* never raises for a missing rule; with shard_on_batch off a sharding_by_name
\* call on the constructed environment raises RuntimeError exactly for the
\* names without a rule.
C17_MissingRuleAtLookup ==
  /\ Constructed => e_err \in {"none", "ValueError", "IndexError"}
  /\ env => sharding_config = env_data.sharding_config
  /\ (e_op = "sharding_by_name" /\ ~env_data.shard_on_batch) =>
       /\ env
       /\ (e_err = "RuntimeError") = ~HasRule(e_arg)

\* an environment with an empty sharding configuration was constructed and a
\* later sharding_by_name call raised
C17_Witness ==
  /\ env
  /\ sharding_config = EmptyConfig
  /\ ~env_data.shard_on_batch
  /\ e_op = "sharding_by_name"
  /\ e_arg = <<output, weight>>
  /\ e_err = "RuntimeError"

\* C18: batch-sharding mode skips the name resolution.  With shard_on_batch on
\* sharding_by_name returns the sharding of axis 0 along x for every name and
\* never raises.
C18_BatchShardingSkipsNames ==
  (env_data.shard_on_batch /\ e_op = "sharding_by_name") =>
    /\ e_err = "none"
    /\ e_ret = <<"x">>

\* with shard_on_batch on, a name whose literal rule says replicate and a name
\* without any rule have been resolved
C18_Witness ==
  /\ env_data.shard_on_batch
  /\ e_op = "sharding_by_name"
  /\ e_ret = <<"x">>
  /\ e_arg \in DOMAIN sharding_config
  /\ sharding_config[e_arg] = NoneAx
  /\ ~HasRule(<<output, weight>>)

\* ------------------------------------------------ claims on the layer caches
\* C14: prefill caches follow the global quantization setting.  With
\* enable_kv_quantization on, an update on a cache that make_caches_prefill
\* returned gives four tensors, the last two being unit scales.
C14_PrefillFollowsQuantization ==
  (env_data.enable_kv_quantization /\ e_op = "make_caches_prefill" /\ l_ret # <<>>) =>
    /\ Len(l_ret) = 4
    /\ \A i \in DOMAIN l_ret[3].data : l_ret[3].data[i] = ScaleUnit

\* C15: cache instantiation.  make_caches_generate returns num_layers caches,
\* all Int8KVCacheGenerate with enable_kv_quantization and all KVCacheGenerate
\* without, with zero buffers of cache_shape; make_caches_prefill returns
\* num_layers KVCachePrefill objects that store no key and no value.
C15_CacheInstantiation ==
  /\ e_op = "make_caches_generate" =>
       /\ e_err = "none"
       /\ Len(caches) = env_data.num_layers
       /\ \A n \in DOMAIN caches :
            /\ caches[n].cls = (IF env_data.enable_kv_quantization
                                  THEN "Int8KVCacheGenerate" ELSE "KVCacheGenerate")
            /\ caches[n].cache_k = Full(env_data.cache_shape, 0)
            /\ caches[n].cache_v = Full(env_data.cache_shape, 0)
  /\ (e_op = "make_caches_prefill" /\ l_ret = <<>>) =>
       /\ e_err = "none"
       /\ Len(caches) = env_data.num_layers
       /\ \A n \in DOMAIN caches :
            /\ caches[n].cls = "KVCachePrefill"
            /\ caches[n].cache_k = NoneT
            /\ caches[n].cache_v = NoneT

UpdatedBuffers ==
  [n \in 1 .. 4 |->
     IF n \in Statements
       THEN JaxAtSet(u_pre[n], batch, pos, Stored(n, u_args[1], u_args[2], u_args[3]))
       ELSE u_pre[n]]

\* C20: update atomicity within a layer.  A read that runs while an update at
\* positions within the capacity is running sees all buffers as the update
\* found them or all buffers as the update leaves them.
C20_UpdateAtomicity ==
  (seen # <<>> /\ seen_pc > 0 /\ \A n \in DOMAIN pos : pos[n] \in Range(Capacity)) =>
    (seen = u_pre \/ seen = UpdatedBuffers)

\* ----------------------------------------------------- claims on a session
\* C21: the environment is read-only after construction.  No call on a
\* constructed environment changes its cache_sharding, its loaded sharding
\* configuration or its configuration data, and the environment stays
\* constructed.
C21_ReadOnlyEnvironment ==
  [][env => /\ env'
            /\ env_data' = env_data
            /\ cache_sharding' = cache_sharding
            /\ sharding_config' = sharding_config]_vars

\* a name without a literal rule has been resolved through the wildcarded rule
\* and the loaded configuration is still the document's
C21_Witness ==
  /\ env
  /\ ~env_data.shard_on_batch
  /\ e_op = "sharding_by_name"
  /\ e_err = "none"
  /\ e_arg \notin DOMAIN sharding_config
  /\ sharding_config = env_data.sharding_config
  /\ sharding_config # EmptyConfig

\* C24: the literal rule takes precedence over the wildcarded rule.  With
\* shard_on_batch off, sharding_by_name of a name with a literal rule returns
\* the sharding of that rule, whatever the rule under the wildcarded name says.
C24_LiteralPrecedence ==
  (env /\ ~env_data.shard_on_batch /\ e_op = "sharding_by_name"
       /\ e_arg \in DOMAIN sharding_config) =>
    /\ e_err = "none"
    /\ e_ret = (IF sharding_config[e_arg].none THEN <<>>
                ELSE PartitionAxis(sharding_config[e_arg].n))

\* attention.3.wq.weight has a literal rule for axis 1, the wildcarded rule
\* names axis 0, and the call returned the sharding of axis 1
C24_Witness ==
  /\ env
  /\ ~env_data.shard_on_batch
  /\ e_op = "sharding_by_name"
  /\ e_arg = <<attention, <<"3">>, wq, weight>>
  /\ e_arg \in DOMAIN sharding_config
  /\ sharding_config[e_arg] = IntAx(1)
  /\ process_sharding_name(e_arg) \in DOMAIN sharding_config
  /\ sharding_config[process_sharding_name(e_arg)] = IntAx(0)
  /\ e_ret = <<"None", "x">>

\* ------------------------------------------------------- claims on names
\* what int() reads as a number: blanks, an optional sign, then digits with
\* single underscores between digits, then blanks
IntLiteral(t) ==
  \E i \in 0 .. Len(t), j \in 1 .. (Len(t) + 1) :
    /\ i < j - 1
    /\ \A k \in 1 .. i : t[k] = " "
    /\ \A k \in j .. Len(t) : t[k] = " "
    /\ \E sgn \in {0, 1} :
         /\ sgn = 1 => t[i + 1] \in {"+", "-"}
         /\ i + sgn < j - 1
         /\ t[i + sgn + 1] \in Digits
         /\ t[j - 1] \in Digits
         /\ \A k \in (i + sgn + 1) .. (j - 1) :
              \/ t[k] \in Digits
              \/ t[k] = "_" /\ t[k - 1] \in Digits /\ t[k + 1] \in Digits

\* C22: name normalization replaces exactly the purely numeric segments.
\* process_sharding_name puts '*' for a segment if and only if the segment
\* consists only of decimal digits and leaves every other segment unchanged;
\* number and order of the segments are kept.
C22_ExactlyDigitSegments ==
  e_op = "process_sharding_name" =>
    /\ Len(e_ret) = Len(e_arg)
    /\ \A i \in DOMAIN e_arg :
         e_ret[i] = IF PurelyNumeric(e_arg[i]) THEN star ELSE e_arg[i]

\* C22, amended: process_sharding_name puts '*' for a segment if and only if
\* int() reads the segment as a number, which holds for digits with a sign,
\* with blanks around them and with single underscores between them as well;
\* every other segment is unchanged, number and order of segments are kept.
C22_ExactlyIntSegments ==
  e_op = "process_sharding_name" =>
    /\ Len(e_ret) = Len(e_arg)
    /\ \A i \in DOMAIN e_arg :
         e_ret[i] = IF IntLiteral(e_arg[i]) THEN star ELSE e_arg[i]

\* wq.-3.w was normalised to wq.*.w
C22_Witness ==
  /\ e_op = "process_sharding_name"
  /\ e_arg = <<wq, <<"-", "3">>, weight>>
  /\ e_ret = <<wq, star, weight>>

\* --------------------------------------------- claims on the stored position
\* C23: the stored position of a Generate cache is fixed by construction.  An
\* update of a wide or int8 Generate cache changes neither the stored position
\* nor the batch index, writes for each row no column but the one the stored
\* position names, and when it has returned that column holds the data of this
\* update alone: the last writer wins.
C23_PositionFixed ==
  [][(cls \in GenerateClasses /\ cls' = cls /\ op' = "update") =>
       /\ pos' = pos
       /\ batch' = batch
       /\ OthersKept(cache_k, cache_k', pos)
       /\ OthersKept(cache_v, cache_v', pos)
       /\ (cls = "KVCacheGenerate" /\ err' = "none") =>
            \A n \in RowsInBounds :
              /\ HoldsStep(cache_k', args'[1], n)
              /\ HoldsStep(cache_v', args'[2], n)
       /\ (cls = "Int8KVCacheGenerate" /\ err' = "none") =>
            \E nan \in NaNToInt8 :
              \A n \in RowsInBounds :
                /\ HoldsStep(cache_k', Quantize(args'[1], nan).q, n)
                /\ HoldsStep(cache_v', Quantize(args'[2], nan).q, n)]_vars

\* a wide cache with positions (0, 1) was updated: each row holds the key of
\* the last update at its own column and nothing at its other column
C23_Witness ==
  /\ cls = "KVCacheGenerate"
  /\ op = "update"
  /\ err = "none"
  /\ pos = <<0, 1>>
  /\ cache_k.data[<<0, 0, 0, 0>>] = args[1].data[<<0, 0, 0, 0>>]
  /\ cache_k.data[<<0, 0, 1, 0>>] = 0
  /\ cache_k.data[<<0, 0, 0, 0>>] # 0
  /\ cache_k.data[<<1, 0, 1, 0>>] = args[1].data[<<1, 0, 0, 0>>]
  /\ cache_k.data[<<1, 0, 0, 0>>] = 0

\* ------------------------------------------------------ claims on the merge
\* the shards of the last run have the same keys and, key by key, the same
\* shapes
SameKeysAndShapes ==
  /\ checkpoints # <<>>
  /\ checkpoints_have_same_weight_keys(checkpoints)
  /\ \A k \in DOMAIN checkpoints[1] :
       tensors_have_same_shape([s \in DOMAIN checkpoints |-> checkpoints[s][k]])

\* C25: the checkpoint merge preserves the weight key set.  When
\* _merge_llama_weights has returned without raising on shards of the same
\* keys and shapes, the keys of the merged state dict are the weight keys of
\* the shards, in the in-memory and in the minimize_memory_footprint mode.
C25_MergePreservesKeys ==
  (runs > 0 /\ m_err = "none" /\ SameKeysAndShapes) =>
    DOMAIN state_dict = DOMAIN checkpoints[1]

=============================================================================
